---- MODULE Spec2Model ----
(***************************************************************************)
(* Predictive-RNN-Navigation, model.py.                                    *)
(*                                                                         *)
(* Five views of the program are modelled over one set of variables:        *)
(*   SpecLoop : one execution of the unrolled graph built by               *)
(*              Model.rnn_cell_loop (reward / mask dynamics per batch      *)
(*              element, and the order in which the py_func nodes that     *)
(*              call the environment may run);                             *)
(*   SpecRun  : main -> reinforcement_learning -> Model() -> training loop *)
(*              -> end-of-task resets, with the stabilization records;     *)
(*   SpecCells: the stack of predictive cells inside one unrolled graph    *)
(*              (top-down feedback, forwarded error, reward/action input); *)
(*   SpecReset: the reset_weights operation over the declared variables;   *)
(*   SpecSnapshot: the training loop's trajectory snapshots and an         *)
(*              external interruption.                                     *)
(* Tensors are modelled per batch element / per parameter as integers.     *)
(***************************************************************************)
EXTENDS Integers, Sequences, FiniteSets, TLC

\* ---------------------------------------------------------------- bounds
MaxHorizon == 4
MaxBatch == 2
MaxCells == 2
MaxTrainBatches == 2
MaxInput == 2
MaxLoggedBatches == 201

\* if i%200 == 0: the interval between two trajectory snapshots
SnapshotInterval == 200

\* values the environment collaborator may return as feedback reward
Rewards == {-1, 0, 1}
\* values par['failure_penalty'] may be configured to
Penalties == {-1, 0, 1}

VARIABLES
    par,                    \* the configuration store (parameters.par)
    \* ---- one execution of the unrolled graph (rnn_cell_loop)
    t,                      \* number of time steps whose nodes have run
    reward,                 \* local reward carried between steps, per element
    feedback_reward,        \* local feedback_reward, per element
    mask,                   \* local mask carried between steps, per element
    self_mask,              \* self.mask: recorded masks, one per step
    self_reward,            \* self.reward: recorded rewards, one per step
    input_data,             \* steps whose make_inputs py_func has run
    agent_action,           \* steps whose agent_action py_func has run
    expected_reward_vector, \* entries appended by predictive_cell (cell 1)
    \* ---- the run (main / reinforcement_learning / Model.__init__)
    pc,                     \* position of the program
    error,                  \* exception that ended the run, or "none"
    built,                  \* what has been created so far
    ops,                    \* attributes of model holding graph operations
    i,                      \* training loop index
    var,                    \* trainable variables
    prev_weights,           \* self.prev_weights
    big_omega_var,          \* self.big_omega_var
    small_omega_var,        \* small_omega_var
    small_omega_var_div,    \* small_omega_var_div
    delta_grads,            \* AdamOpt's last applied delta
    current_reward,         \* self.current_reward
    previous_reward,        \* self.previous_reward
    n_train_op,             \* executions of model.train_op so far
    n_update_small_omega,   \* executions of model.update_small_omega so far
    agent_records,          \* trajectory snapshots appended so far
    \* ---- the stack of predictive cells (rnn_cell_loop, predictive_cell)
    time_step,              \* time step t of the cell loop
    cell_num,               \* position in `for i in range(num_pred_cells)`
    h,                      \* h[i]: which hidden state layer i holds
    last_cell,              \* the cell that ran last, or -1
    y,                      \* top-down input given to that cell
    x_reward,               \* reward component of that cell's input x
    x_action,               \* action component of that cell's input x
    pos_err,                \* stimulus channels of that cell's pos_err
    neg_err,                \* stimulus channels of that cell's neg_err
    error_signal,           \* error forwarded to the next layer up
    prev_reward,            \* local reward at the top of the time step
    prev_action,            \* local action at the top of the time step
    \* ---- the reset_weights operation
    reset_pc,               \* "trained" before, "reset" after the operation
    weights,                \* value of every declared variable
    reset_assigned,         \* variables the operation has assigned
    \* ---- trajectory snapshots
    snap_pc,                \* position in the loop body / the process
    snap_i,                 \* training loop index
    snap_records,           \* agent_records: 'iter' of every record
    snapshot_file           \* content of the trajectories file

loopVars == <<t, reward, feedback_reward, mask, self_mask, self_reward,
              input_data, agent_action, expected_reward_vector>>
runVars  == <<pc, error, built, ops, i, var, prev_weights, big_omega_var,
              small_omega_var, small_omega_var_div, delta_grads,
              current_reward, previous_reward, n_train_op,
              n_update_small_omega, agent_records>>
cellVars == <<time_step, cell_num, h, last_cell, y, x_reward, x_action, pos_err,
              neg_err, error_signal, prev_reward, prev_action>>
resetVars == <<reset_pc, weights, reset_assigned>>
snapVars == <<snap_pc, snap_i, snap_records, snapshot_file>>
extVars == <<cellVars, resetVars, snapVars>>
vars == <<par, loopVars, runVars, extVars>>

\* y = None: the cell gets no top-down input
NoFeedback == [layer |-> -1, produced |-> -1]

\* the views that a specification does not exercise stay as they are here
CellsIdle ==
    /\ time_step = 0 /\ cell_num = 0 /\ h = <<>> /\ last_cell = -1
    /\ y = NoFeedback
    /\ x_reward = 0 /\ x_action = 0 /\ pos_err = <<>> /\ neg_err = <<>>
    /\ error_signal = <<>> /\ prev_reward = 0 /\ prev_action = 0
ResetIdle == reset_pc = "idle" /\ weights = <<>> /\ reset_assigned = {}
\* the trajectories file before the first open(fn, 'wb')
NoFile == [exists |-> FALSE, records |-> <<>>, complete |-> FALSE]
SnapIdle ==
    /\ snap_pc = "idle" /\ snap_i = 0 /\ snap_records = <<>>
    /\ snapshot_file = NoFile

\* ------------------------------------------------------- rnn_cell_loop
Batch == 1..par.batch_size

\* self.time_mask = tf.unstack(tf.ones([num_time_steps, batch_size]))
time_mask(step, b) == 1

\* continue_trial = tf.cast(tf.equal(reward, 0.), tf.float32)
continue_trial_C4Mutant(r) == IF r > 0 THEN 0 ELSE 1
continue_trial(r) == IF r = 0 THEN 1 ELSE 0

\* mask *= continue_trial
MaskUpdate_C1Mutant(m, ct) == ct
MaskUpdate(m, ct) == m * ct

\* if t < par['num_time_steps']-2: the environment is asked for the reward
CallsAgentAction_C2Mutant(step) == step < par.num_time_steps - 1
CallsAgentAction_C3Mutant(step) == step < par.num_time_steps + 2
CallsAgentAction(step) == step < par.num_time_steps - 2

\* reward = feedback_reward*mask*tf.reshape(self.time_mask[t], ...)
RewardOf(fb, m, step) == [b \in Batch |-> fb[b] * m[b] * time_mask(step, b)]

\* predictive_cell appends to expected_reward_vector when cell_num == 1
ExpectedRewardAppends == Cardinality({c \in 0..(par.num_pred_cells - 1) : c = 1})

\* state at the start of the unrolled loop (lines 73-98)
LoopInit ==
    /\ t = 0
    /\ reward = [b \in Batch |-> 0]
    /\ feedback_reward = [b \in Batch |-> 0]
    /\ mask = [b \in Batch |-> 1]
    /\ self_mask = <<>>
    /\ self_reward = <<>>
    /\ input_data = {}
    /\ agent_action = {}
    /\ expected_reward_vector = 0

\* The py_func node calling stimulus_access.make_inputs for time step s.
\* The node has no inputs and no control dependency: the executor may run
\* it as soon as the graph execution starts.  (The get_agent_locs node of
\* line 105 is scheduled the same way; its result is only fetched and it is
\* not tracked here.)
MakeInputs(s) ==
    /\ s \in 0..(par.num_time_steps - 1)
    /\ s \notin input_data
    /\ input_data' = input_data \cup {s}
    /\ UNCHANGED <<extVars, par, t, reward, feedback_reward, mask, self_mask,
                   self_reward, agent_action, expected_reward_vector,
                   runVars>>

\* The remaining nodes of time step t: cells, policy/value heads, mask
\* update, environment feedback or forced penalty, reward, records.
\* They need the inputs of step t and the reward/state of step t-1.
RnnStep ==
    /\ t < par.num_time_steps
    /\ t \in input_data
    /\ \E env \in [Batch -> Rewards] :
        LET m  == [b \in Batch |-> MaskUpdate(mask[b], continue_trial(reward[b]))]
            fb == IF CallsAgentAction(t) THEN env
                  ELSE [b \in Batch |-> par.failure_penalty]
            r  == RewardOf(fb, m, t)
        IN  /\ CallsAgentAction(t) \/ env = [b \in Batch |-> 0]
            /\ mask' = m
            /\ feedback_reward' = fb
            /\ reward' = r
            /\ agent_action' = IF CallsAgentAction(t) THEN agent_action \cup {t}
                               ELSE agent_action
            /\ self_reward' = Append(self_reward, r)
            /\ self_mask' = Append(self_mask, m)
    /\ expected_reward_vector' = expected_reward_vector + ExpectedRewardAppends
    /\ t' = t + 1
    /\ UNCHANGED <<extVars, par, input_data, runVars>>

RunIdle ==
    /\ pc = "idle" /\ error = "none" /\ built = {} /\ ops = {}
    /\ i = 0
    /\ var = <<>> /\ prev_weights = <<>> /\ big_omega_var = <<>>
    /\ small_omega_var = <<>> /\ small_omega_var_div = <<>>
    /\ delta_grads = <<>>
    /\ current_reward = 0 /\ previous_reward = 0
    /\ n_train_op = 0 /\ n_update_small_omega = 0
    /\ agent_records = <<>>

InitLoop ==
    /\ par \in [num_time_steps : 1..MaxHorizon, batch_size : 1..MaxBatch,
                num_pred_cells : 1..MaxCells, failure_penalty : Penalties,
                training_method : {"RL"}, stabilization : {"pathint"},
                n_train_batches : {1}, n_input : {1}]
    /\ LoopInit
    /\ RunIdle
    /\ CellsIdle /\ ResetIdle /\ SnapIdle

NextLoop ==
    \/ \E s \in 0..(MaxHorizon - 1) : MakeInputs(s)
    \/ RnnStep

SpecLoop == InitLoop /\ [][NextLoop]_vars

\* ------------------------------------------------------------ the run
\* trainable variables (tf.trainable_variables()): one recurrent weight of
\* cell 0 and the value head's weight stand for the declared list
TrainableVariables == {"network/Uf0", "network/W_val_out"}

\* names n with 'val' in n (not stabilized by the auxiliary loss)
ValNames == {"network/W_val_out"}

\* initial values of the trainable variables (par[name + '_init'])
InitValues == {0, 1}

\* per-variable update applied by one gradient step
Deltas == {-1, 0, 1}

Zeros == [n \in TrainableVariables |-> 0]

Abs(x) == IF x < 0 THEN -x ELSE x

\* operations that Model.optimize leaves as attributes of the model, by
\* par['stabilization'] (lines 283-302, 333-393, 396-421)
BuiltOps(stabilization) ==
    {"train_op", "reset_prev_vars", "reset_adam_op", "reset_weights",
     "reset_rnn_weights"}
    \cup (IF stabilization = "pathint"
          THEN {"update_current_reward", "update_previous_reward",
                "update_big_omega", "reset_small_omega", "update_small_omega"}
          ELSE IF stabilization = "EWC" THEN {"update_big_omega"}
          ELSE {})

\* what Model.__init__ has created when it returns or raises: the variables
\* (declare_variables), the unrolled graph (rnn_cell_loop) and the
\* stabilization records of optimize (lines 204-223) precede the branch on
\* par['training_method'] (lines 233-279)
ModelInitBuilt == {"variables", "graph", "stabilization_records"}

\* the exception Model.optimize raises, by par['training_method']: the SL
\* branch reads self.target_data, which nothing defines (line 238); any other
\* value leaves sup_loss and RL_loss undefined at line 282
OptimizeError(training_method) ==
    IF training_method = "RL" THEN "none"
    ELSE IF training_method = "SL" THEN "AttributeError"
    ELSE "NameError"

\* tf.group(*reset_prev_vars_ops): tf.assign(self.prev_weights[n], var)
reset_prev_vars_C9Mutant ==
    [n \in TrainableVariables |->
        IF n \in ValNames THEN prev_weights[n] ELSE var[n]]
reset_prev_vars == [n \in TrainableVariables |-> var[n]]

\* tf.group(*reset_small_omega_ops): tf.assign(x, x*0.0) for both records
reset_small_omega(x) == [n \in TrainableVariables |-> x[n] * 0]

\* self.aux_loss without the factor par['omega_c'] (lines 218-226)
aux_loss ==
    LET terms == [n \in TrainableVariables |->
                    IF n \in ValNames THEN 0
                    ELSE big_omega_var[n]
                         * (prev_weights[n] - var[n]) * (prev_weights[n] - var[n])]
        RECURSIVE Sum(_)
        Sum(S) == IF S = {} THEN 0
                  ELSE LET n == CHOOSE x \in S : TRUE IN terms[n] + Sum(S \ {n})
    IN  Sum(TrainableVariables)

\* AdamOpt.compute_gradients: one gradient step, var += delta
AdamApply(v, d) == [n \in TrainableVariables |-> v[n] + d[n]]

\* one execution of update_small_omega (lines 383-393) that reads the delta
\* dg and the rewards cr, pr: returns the two records after the assign_adds
update_small_omega(so, sd, dg, cr, pr) ==
    [small |-> [n \in TrainableVariables |-> so[n] + dg[n] * (cr - pr)],
     div   |-> [n \in TrainableVariables |-> sd[n] + Abs(dg[n] * (cr - pr))]]

\* main (lines 620-631)
Main ==
    /\ pc = "main"
    /\ IF par.training_method = "SL"
       THEN pc' = "failed" /\ error' = "UnsupportedMode"
       ELSE IF par.training_method = "RL"
       THEN pc' = "reinforcement_learning" /\ error' = error
       ELSE pc' = "failed" /\ error' = "UnsupportedMode"
    /\ UNCHANGED <<extVars, par, loopVars, built, ops, i, var, prev_weights,
                   big_omega_var, small_omega_var, small_omega_var_div,
                   delta_grads, current_reward, previous_reward, n_train_op,
                   n_update_small_omega, agent_records>>

\* reinforcement_learning up to the construction of the model (lines 424-448)
ReinforcementLearning ==
    /\ pc = "reinforcement_learning"
    /\ built' = built \cup {"session"}
    /\ pc' = "Model"
    /\ UNCHANGED <<extVars, par, loopVars, error, ops, i, var, prev_weights,
                   big_omega_var, small_omega_var, small_omega_var_div,
                   delta_grads, current_reward, previous_reward, n_train_op,
                   n_update_small_omega, agent_records>>

\* Model.__init__: declare_variables, rnn_cell_loop, optimize
ModelInit ==
    /\ pc = "Model"
    /\ built' = built \cup ModelInitBuilt
    /\ error' = OptimizeError(par.training_method)
    /\ IF OptimizeError(par.training_method) # "none"
       THEN pc' = "failed" /\ ops' = ops
       ELSE /\ ops' = BuiltOps(par.stabilization)
            /\ pc' = IF "session" \in built THEN "initialize" ELSE "constructed"
    /\ UNCHANGED <<extVars, par, loopVars, i, var, prev_weights,
                   big_omega_var, small_omega_var, small_omega_var_div,
                   delta_grads, current_reward, previous_reward, n_train_op,
                   n_update_small_omega, agent_records>>

\* sess.run(tf.global_variables_initializer()); sess.run(model.reset_prev_vars)
\* (lines 452-454)
Initialize ==
    /\ pc = "initialize"
    /\ \E w \in InitValues :
        /\ var' = [n \in TrainableVariables |-> w]
        /\ prev_weights' = [n \in TrainableVariables |-> w]
    /\ big_omega_var' = Zeros
    /\ delta_grads' = Zeros
    /\ IF par.stabilization = "pathint"
       THEN /\ small_omega_var' = Zeros
            /\ small_omega_var_div' = Zeros
            /\ current_reward' = -1
            /\ previous_reward' = -1
       ELSE UNCHANGED <<small_omega_var, small_omega_var_div,
                        current_reward, previous_reward>>
    /\ i' = 0
    /\ pc' = "loop"
    /\ UNCHANGED <<extVars, par, loopVars, error, built, ops, n_train_op,
                   n_update_small_omega, agent_records>>

\* body of the training loop under par['stabilization'] == 'pathint'
\* (lines 461-474, 483-526).  The first sess.run fetches train_op,
\* update_current_reward and update_small_omega together with no control
\* dependency between them: update_small_omega reads, per variable, the delta
\* of this step or of the previous one, and the current reward before or
\* after its update.  For i > 0 update_small_omega is run a second time.
IterationPathint ==
    /\ pc = "loop" /\ i < par.n_train_batches
    /\ par.stabilization = "pathint"
    /\ \E d \in [TrainableVariables -> Deltas], r \in Rewards,
          newDelta \in [TrainableVariables -> BOOLEAN], newReward \in BOOLEAN :
        LET dg1 == [n \in TrainableVariables |->
                      IF newDelta[n] THEN d[n] ELSE delta_grads[n]]
            cr1 == IF newReward THEN r ELSE current_reward
            u1  == update_small_omega(small_omega_var, small_omega_var_div,
                                      dg1, cr1, previous_reward)
            u2  == IF i > 0
                   THEN update_small_omega(u1.small, u1.div, d, r, previous_reward)
                   ELSE u1
        IN  /\ var' = AdamApply(var, d)
            /\ delta_grads' = d
            /\ current_reward' = r
            /\ small_omega_var' = u2.small
            /\ small_omega_var_div' = u2.div
            /\ previous_reward' = r
    /\ n_train_op' = n_train_op + 1
    /\ n_update_small_omega' = n_update_small_omega + (IF i > 0 THEN 2 ELSE 1)
    /\ agent_records' = IF i % 200 = 0 THEN Append(agent_records, i)
                        ELSE agent_records
    /\ i' = i + 1
    /\ UNCHANGED <<extVars, par, loopVars, pc, error, built, ops, prev_weights,
                   big_omega_var>>

\* body of the training loop under any other par['stabilization']: the EWC
\* branch fetches model.update_current_reward, which only
\* pathint_stabilization creates (line 478); with neither branch taken
\* reward_list is undefined at line 483
IterationOther ==
    /\ pc = "loop" /\ i < par.n_train_batches
    /\ par.stabilization # "pathint"
    /\ pc' = "failed"
    /\ error' = IF par.stabilization = "EWC"
                   /\ "update_current_reward" \notin ops
                THEN "AttributeError"
                ELSE "NameError"
    /\ UNCHANGED <<extVars, par, loopVars, built, ops, i, var, prev_weights,
                   big_omega_var, small_omega_var, small_omega_var_div,
                   delta_grads, current_reward, previous_reward, n_train_op,
                   n_update_small_omega, agent_records>>

\* after the loop (lines 546-550): reset_adam_op, reset_prev_vars and, under
\* pathint, reset_small_omega; update_big_omega is not run (lines 529-539 are
\* a string literal)
EndTask ==
    /\ pc = "loop" /\ i = par.n_train_batches
    /\ prev_weights' = reset_prev_vars
    /\ IF par.stabilization = "pathint"
       THEN /\ small_omega_var' = reset_small_omega(small_omega_var)
            /\ small_omega_var_div' = reset_small_omega(small_omega_var_div)
       ELSE UNCHANGED <<small_omega_var, small_omega_var_div>>
    /\ pc' = "done"
    /\ UNCHANGED <<extVars, par, loopVars, error, built, ops, i, var, big_omega_var,
                   delta_grads, current_reward, previous_reward, n_train_op,
                   n_update_small_omega, agent_records>>

InitRun ==
    /\ par \in [num_time_steps : {1}, batch_size : {1},
                num_pred_cells : {1}, failure_penalty : {-1},
                training_method : {"RL", "SL", "other"},
                stabilization : {"pathint", "EWC", "none"},
                n_train_batches : 1..MaxTrainBatches, n_input : {1}]
    /\ LoopInit
    /\ CellsIdle /\ ResetIdle /\ SnapIdle
    /\ pc \in {"main", "Model"}
    /\ error = "none" /\ built = {} /\ ops = {}
    /\ i = 0
    /\ var = <<>> /\ prev_weights = <<>> /\ big_omega_var = <<>>
    /\ small_omega_var = <<>> /\ small_omega_var_div = <<>>
    /\ delta_grads = <<>>
    /\ current_reward = 0 /\ previous_reward = 0
    /\ n_train_op = 0 /\ n_update_small_omega = 0
    /\ agent_records = <<>>

NextRun ==
    \/ Main
    \/ ReinforcementLearning
    \/ ModelInit
    \/ Initialize
    \/ IterationPathint
    \/ IterationOther
    \/ EndTask

SpecRun == InitRun /\ [][NextRun]_vars

\* ------------------------------------------- the stack of predictive cells
\* A hidden state is identified by the layer that produced it and the time
\* step at which it was produced (-1: the zeros of line 93).
Cells == 0..(par.num_pred_cells - 1)
Channels == 1..par.n_input

\* observation values and values of a cell's prediction h @ W_pred + b_pred
Inputs == {0, 1}
Preds == {0, 1}

Relu(v) == IF v > 0 THEN v ELSE 0
Maximum(a, b) == IF a >= b THEN a ELSE b

\* for i in range(par['num_pred_cells']): the k-th cell to run in a step
CellOrder_C12Mutant(k) == par.num_pred_cells - 1 - k
CellOrder(k) == k

\* y = None if i == par['num_pred_cells']-1 else h[i+1]
TopDown(hh, c) == IF c = par.num_pred_cells - 1 THEN NoFeedback ELSE hh[c + 1]

\* the factor of reward and action in x = tf.concat([x, reward*i, action*i])
ContextOf(v, c) == v * c

\* pos_err / neg_err of predictive_cell on the stimulus channels
PosErr(x, pred) == [k \in Channels |-> Relu(x[k] - pred[k])]
NegErr(x, pred) == [k \in Channels |-> Relu(pred[k] - x[k])]

\* lines 127-128: the stimulus channels of the two halves are concatenated,
\* positive half first, and the even-indexed columns are paired with the
\* odd-indexed ones
ForwardError(pos, neg) ==
    LET n   == par.n_input
        cat == [k \in 1..(2 * n) |-> IF k <= n THEN pos[k] ELSE neg[k - n]]
    IN  [k \in Channels |-> Maximum(cat[2 * k - 1], cat[2 * k])]

InitCells ==
    /\ par \in [num_time_steps : 1..MaxHorizon, batch_size : {1},
                num_pred_cells : 1..MaxCells, failure_penalty : {-1},
                training_method : {"RL"}, stabilization : {"pathint"},
                n_train_batches : {1}, n_input : 1..MaxInput]
    /\ LoopInit /\ RunIdle /\ ResetIdle /\ SnapIdle
    /\ time_step = 0 /\ cell_num = 0
    /\ h = [c \in Cells |-> [layer |-> c, produced |-> -1]]
    /\ last_cell = -1 /\ y = NoFeedback
    /\ x_reward = 0 /\ x_action = 0
    /\ pos_err = [k \in Channels |-> 0] /\ neg_err = [k \in Channels |-> 0]
    /\ error_signal = [k \in Channels |-> 0]
    /\ prev_reward = 0 /\ prev_action = 0

\* one pass of the body of the loop over the cells (lines 109-128) with
\* predictive_cell (lines 168-193)
CellRun ==
    /\ time_step < par.num_time_steps
    /\ cell_num < par.num_pred_cells
    /\ LET c == CellOrder(cell_num) IN
       \E inp \in [Channels -> Inputs], pred \in [Channels -> Preds] :
        LET x   == IF c = 0 THEN inp ELSE error_signal
            pos == PosErr(x, pred)
            neg == NegErr(x, pred)
        IN  /\ c = 0 \/ inp = [k \in Channels |-> 0]
            /\ y' = TopDown(h, c)
            /\ x_reward' = ContextOf(prev_reward, c)
            /\ x_action' = ContextOf(prev_action, c)
            /\ pos_err' = pos
            /\ neg_err' = neg
            /\ h' = [h EXCEPT ![c] = [layer |-> c, produced |-> time_step]]
            /\ error_signal' = ForwardError(pos, neg)
            /\ last_cell' = c
    /\ cell_num' = cell_num + 1
    /\ UNCHANGED <<par, loopVars, runVars, resetVars, snapVars, time_step,
                   prev_reward, prev_action>>

\* the rest of the time step (lines 130-162): a new action is sampled and a
\* new reward is formed for the next step
CellStepEnd ==
    /\ time_step < par.num_time_steps
    /\ cell_num = par.num_pred_cells
    /\ \E r \in Rewards, a \in {0, 1} :
        /\ prev_reward' = r
        /\ prev_action' = a
    /\ time_step' = time_step + 1
    /\ cell_num' = 0
    /\ last_cell' = -1
    /\ UNCHANGED <<par, loopVars, runVars, resetVars, snapVars, h, y,
                   x_reward, x_action, pos_err, neg_err, error_signal>>

NextCells == CellRun \/ CellStepEnd

SpecCells == InitCells /\ [][NextCells]_vars

\* ------------------------------------------------------- reset_weights
\* Variable names are sequences of characters, so that the tests
\* 'b' in var.op.name and 'W' in var.op.name are computed as the code does.
NetworkScope == <<"n", "e", "t", "w", "o", "r", "k", "/">>

\* lstm_var_prefixes (line 48)
lstm_var_prefixes ==
    {<<"W", "f">>, <<"W", "i">>, <<"W", "o">>, <<"W", "c">>,
     <<"U", "f">>, <<"U", "i">>, <<"U", "o">>, <<"U", "c">>,
     <<"b", "f">>, <<"b", "i">>, <<"b", "o">>, <<"b", "c">>,
     <<"W", "_", "p", "r", "e", "d">>, <<"b", "_", "p", "r", "e", "d">>}

\* rl_var_prefixes (line 49)
rl_var_prefixes ==
    {<<"W", "_", "p", "o", "l", "_", "o", "u", "t">>,
     <<"b", "_", "p", "o", "l", "_", "o", "u", "t">>,
     <<"W", "_", "v", "a", "l", "_", "o", "u", "t">>,
     <<"b", "_", "v", "a", "l", "_", "o", "u", "t">>}

\* str(i) for a cell index
Str(c) == <<(<<"0", "1", "2", "3", "4", "5", "6", "7", "8", "9">>)[c + 1]>>

\* var.op.name of every variable declare_variables creates (lines 59-65)
DeclaredVariables ==
    {NetworkScope \o name \o Str(c) : name \in lstm_var_prefixes, c \in Cells}
    \cup {NetworkScope \o name : name \in rl_var_prefixes}

\* ch in name
Contains(name, ch) == \E k \in 1..Len(name) : name[k] = ch

\* the two branches of reset_weights (lines 310-316)
ResetsToZero(name) == Contains(name, "b")
Redraws(name) == ~Contains(name, "b") /\ Contains(name, "W")

\* the variables the claim speaks of: biases and weight matrices, by prefix
BiasVariables == {n \in DeclaredVariables : n[Len(NetworkScope) + 1] = "b"}
MatrixVariables == {n \in DeclaredVariables : n[Len(NetworkScope) + 1] \in {"W", "U"}}

InitReset ==
    /\ par \in [num_time_steps : {1}, batch_size : {1},
                num_pred_cells : 1..MaxCells, failure_penalty : {-1},
                training_method : {"RL"}, stabilization : {"pathint"},
                n_train_batches : {1}, n_input : {1}]
    /\ LoopInit /\ RunIdle /\ CellsIdle /\ SnapIdle
    /\ reset_pc = "initialized"
    /\ \E w \in InitValues : weights = [n \in DeclaredVariables |-> w]
    /\ reset_assigned = {}

\* training before the reset: a gradient step moves a variable
ResetTrain ==
    /\ reset_pc = "initialized"
    /\ \E n \in DeclaredVariables, d \in Deltas \ {0} :
        weights' = [weights EXCEPT ![n] = @ + d]
    /\ reset_pc' = "trained"
    /\ UNCHANGED <<par, loopVars, runVars, cellVars, snapVars, reset_assigned>>

\* sess.run(model.reset_weights): the group of assigns built by
\* reset_weights (lines 305-318).  initialize_weight draws a new matrix; the
\* drawn value w stands for it.
ResetWeights ==
    /\ reset_pc \in {"initialized", "trained"}
    /\ \E w \in InitValues :
        weights' = [n \in DeclaredVariables |->
                      IF ResetsToZero(n) THEN weights[n] * 0
                      ELSE IF Redraws(n) THEN w
                      ELSE weights[n]]
    /\ reset_assigned' = {n \in DeclaredVariables : ResetsToZero(n) \/ Redraws(n)}
    /\ reset_pc' = "reset"
    /\ UNCHANGED <<par, loopVars, runVars, cellVars, snapVars>>

NextReset == ResetTrain \/ ResetWeights

SpecReset == InitReset /\ [][NextReset]_vars

\* ------------------------------------------------ trajectory snapshots
\* The iterations of the training loop as far as the snapshots go (lines
\* 459-526): the gradient step is left out, the record and the file are kept.
InitSnapshot ==
    /\ par \in [num_time_steps : {1}, batch_size : {1},
                num_pred_cells : {1}, failure_penalty : {-1},
                training_method : {"RL"}, stabilization : {"pathint"},
                n_train_batches : 1..MaxLoggedBatches, n_input : {1}]
    /\ LoopInit /\ RunIdle /\ CellsIdle /\ ResetIdle
    /\ snap_pc = "loop" /\ snap_i = 0 /\ snap_records = <<>>
    /\ snapshot_file = NoFile

\* an iteration with i%200 != 0
SnapIterate ==
    /\ snap_pc = "loop" /\ snap_i < par.n_train_batches
    /\ snap_i % SnapshotInterval # 0
    /\ snap_i' = snap_i + 1
    /\ UNCHANGED <<par, loopVars, runVars, cellVars, resetVars, snap_pc,
                   snap_records, snapshot_file>>

\* an iteration with i%200 == 0, up to open(fn.format(i), 'wb'): fn has no
\* placeholder, so every snapshot opens the same file, and 'wb' truncates it
SnapOpen ==
    /\ snap_pc = "loop" /\ snap_i < par.n_train_batches
    /\ snap_i % SnapshotInterval = 0
    /\ snap_records' = Append(snap_records, snap_i)
    /\ snapshot_file' = [exists |-> TRUE, records |-> <<>>, complete |-> FALSE]
    /\ snap_pc' = "dumping"
    /\ UNCHANGED <<par, loopVars, runVars, cellVars, resetVars, snap_i>>

\* pickle.dump(agent_records, file) completes and the iteration ends
SnapDump ==
    /\ snap_pc = "dumping"
    /\ snapshot_file' = [exists |-> TRUE, records |-> snap_records,
                         complete |-> TRUE]
    /\ snap_i' = snap_i + 1
    /\ snap_pc' = "loop"
    /\ UNCHANGED <<par, loopVars, runVars, cellVars, resetVars, snap_records>>

\* the loop ends (range exhausted)
SnapFinish ==
    /\ snap_pc = "loop" /\ snap_i = par.n_train_batches
    /\ snap_pc' = "finished"
    /\ UNCHANGED <<par, loopVars, runVars, cellVars, resetVars, snap_i,
                   snap_records, snapshot_file>>

\* KeyboardInterrupt raised at any point of the loop and caught in __main__
\* (lines 634-641), which only prints; the file stays as it is
KeyboardInterrupt ==
    /\ snap_pc \in {"loop", "dumping"}
    /\ snap_pc' = "interrupted"
    /\ UNCHANGED <<par, loopVars, runVars, cellVars, resetVars, snap_i,
                   snap_records, snapshot_file>>

NextSnapshot ==
    \/ SnapIterate
    \/ SnapOpen
    \/ SnapDump
    \/ SnapFinish
    \/ KeyboardInterrupt

SpecSnapshot == InitSnapshot /\ [][NextSnapshot]_vars

\* ------------------------------------------------ properties of the loop
\* the graph execution has run every node of every time step
LoopDone == t = par.num_time_steps

\* mask at entry to recorded step k (1-based): the mask carried over from
\* the previous step, before step k's own update
EntryMask(k, b) == IF k = 1 THEN 1 ELSE self_mask[k - 1][b]

\* recorded steps that are among the last two of the horizon
LastTwo == {k \in 1..Len(self_reward) : k >= par.num_time_steps - 1}

\* C1: every recorded mask is 0 or 1 and, for every step after the first and
\* every batch element, is not larger than the mask recorded one step before
\* (once 0 it stays 0), whatever feedback the environment returned.
C1_MaskNonIncreasing ==
    \A k \in 1..Len(self_mask) : \A b \in Batch :
        /\ self_mask[k][b] \in {0, 1}
        /\ k > 1 => self_mask[k][b] <= self_mask[k - 1][b]
        /\ (k > 1 /\ self_mask[k - 1][b] = 0) => self_mask[k][b] = 0

\* C1 witness: the mask of an element dropped from 1 to 0 at a step where the
\* environment was asked and returned a non-zero feedback for that element;
\* the recorded reward of the ended element is 0.
C1_Witness ==
    /\ Len(self_mask) >= 2
    /\ (t - 1) \in agent_action
    /\ \E b \in Batch :
        /\ self_mask[Len(self_mask) - 1][b] = 1
        /\ self_mask[Len(self_mask)][b] = 0
        /\ feedback_reward[b] # 0
        /\ reward[b] = 0

\* C2 as claimed: in each of the last two steps the recorded reward equals the
\* failure penalty wherever the mask at entry to the step (before the step's
\* own mask update) was 1.
C2_Claimed ==
    \A k \in LastTwo : \A b \in Batch :
        EntryMask(k, b) = 1 => self_reward[k][b] = par.failure_penalty

\* C2 amended: in each of the last two steps the recorded reward equals the
\* failure penalty wherever the mask recorded for the step (the entry mask
\* after the step's own update by the previous reward) is 1, and is 0 where
\* that mask is 0.
C2_PenaltyWhereMaskAfterUpdate ==
    \A k \in LastTwo : \A b \in Batch :
        /\ self_mask[k][b] = 1 => self_reward[k][b] = par.failure_penalty
        /\ self_mask[k][b] = 0 => self_reward[k][b] = 0

\* C2 witness: a complete run of at least three steps in which the
\* environment was asked, one element reached the second-to-last step with
\* mask 1 and got the non-zero penalty there, and the last step, entered with
\* mask 1, recorded reward 0.
C2_Witness ==
    /\ LoopDone /\ par.num_time_steps >= 3 /\ par.failure_penalty # 0
    /\ agent_action # {}
    /\ \E b \in Batch :
        /\ self_mask[par.num_time_steps - 1][b] = 1
        /\ self_reward[par.num_time_steps - 1][b] = par.failure_penalty
        /\ EntryMask(par.num_time_steps, b) = 1
        /\ self_reward[par.num_time_steps][b] = 0

\* C3: with a non-zero failure penalty, once the whole horizon has run every
\* batch element has a non-zero recorded reward at some step.
C3_TerminalSignal ==
    (LoopDone /\ par.failure_penalty # 0) =>
        \A b \in Batch : \E k \in 1..Len(self_reward) : self_reward[k][b] # 0

\* C3 witness: a complete run with non-zero penalty in which the environment
\* was asked at least once and answered 0 every time for some element, whose
\* only non-zero reward is then the forced penalty.
C3_Witness ==
    /\ LoopDone /\ par.failure_penalty # 0 /\ par.num_time_steps >= 3
    /\ \E b \in Batch :
        /\ \A k \in 1..(par.num_time_steps - 2) : self_reward[k][b] = 0
        /\ self_reward[par.num_time_steps - 1][b] = par.failure_penalty

\* the end-to-end scenario: 1 layer, horizon 3, batch 1, the run complete and
\* the environment's feedback (asked at step 0 only) zero
Scenario ==
    /\ par.num_pred_cells = 1 /\ par.num_time_steps = 3 /\ par.batch_size = 1
    /\ LoopDone
    /\ self_reward[1][1] = 0

\* C4 as claimed: the scenario records 3 steps with masks 1,1,0 and the forced
\* penalty, applied at the last step, is the only non-zero reward.
C4_Claimed ==
    Scenario =>
        /\ Len(self_mask) = 3 /\ Len(self_reward) = 3
        /\ <<self_mask[1][1], self_mask[2][1], self_mask[3][1]>> = <<1, 1, 0>>
        /\ self_reward[3][1] = par.failure_penalty
        /\ self_reward[3][1] # 0
        /\ self_reward[2][1] = 0

\* C4 amended: with a non-zero failure penalty the scenario records 3 steps
\* with masks 1,1,0 and rewards 0, penalty, 0: the penalty is recorded at the
\* second-to-last step and the mask becomes 0 at the last step, whose
\* recorded reward is 0.
C4_ScenarioTrajectory ==
    (Scenario /\ par.failure_penalty # 0) =>
        /\ Len(self_mask) = 3 /\ Len(self_reward) = 3
        /\ <<self_mask[1][1], self_mask[2][1], self_mask[3][1]>> = <<1, 1, 0>>
        /\ <<self_reward[1][1], self_reward[2][1], self_reward[3][1]>>
             = <<0, par.failure_penalty, 0>>
        /\ expected_reward_vector = 0

\* C4 witness: the scenario has run to its end with a negative penalty.
C4_Witness == Scenario /\ par.failure_penalty = -1 /\ agent_action = {0}

\* C5 as claimed: the environment calls run in program order: make_inputs of
\* step s before agent_action of step s, and agent_action of step s before
\* make_inputs of step s+1.
C5_Claimed ==
    /\ \A s \in agent_action : s \in input_data
    /\ \A s \in input_data :
        (s >= 1 /\ CallsAgentAction(s - 1)) => (s - 1) \in agent_action

\* ------------------------------------------------- properties of the run
\* C6 as claimed: with a training mode other than RL the run fails at once
\* with the explicit unsupported-mode error and nothing has been created.
C6_Claimed ==
    par.training_method # "RL" =>
        /\ built = {}
        /\ pc \in {"main", "Model", "failed"}
        /\ pc = "failed" => error = "UnsupportedMode"

\* C7 as claimed: under pathint, after k iterations of the training loop
\* update_small_omega has run exactly k times, once per applied gradient step.
C7_Claimed ==
    (par.stabilization = "pathint" /\ pc \in {"loop", "done"}) =>
        /\ n_train_op = i
        /\ n_update_small_omega = i

\* C8 as claimed: under pathint, the step that ends the task zeroes the small
\* accumulators only after folding them into the importance weight: a
\* variable whose small accumulator was non-zero has its big omega increased.
C8_Claimed ==
    [][(pc = "loop" /\ pc' = "done" /\ par.stabilization = "pathint") =>
          \A n \in TrainableVariables :
              small_omega_var[n] # 0 => big_omega_var'[n] > big_omega_var[n]]_vars

\* C9: under pathint, right after the end-of-task reset sequence every
\* trainable variable has small omega 0, small omega divisor 0 and a
\* reference value equal to its current value, and the auxiliary loss is 0.
C9_AfterReset ==
    (pc = "done" /\ par.stabilization = "pathint") =>
        /\ \A n \in TrainableVariables :
              /\ small_omega_var[n] = 0
              /\ small_omega_var_div[n] = 0
              /\ prev_weights[n] = var[n]
        /\ aux_loss = 0

\* C9 witness: the reset sequence has run after a task in which gradient
\* steps moved every variable away from all initial values and the small
\* accumulators were updated.
C9_Witness ==
    /\ pc = "done" /\ par.stabilization = "pathint"
    /\ n_train_op >= 2 /\ n_update_small_omega >= 2
    /\ \A n \in TrainableVariables : var[n] \notin InitValues
    /\ current_reward # -1

\* C10 as claimed: for every stabilization selector each iteration of the
\* training loop applies exactly one gradient step and raises no error.
C10_Claimed ==
    (par.training_method = "RL" /\ "session" \in built) =>
        /\ error = "none"
        /\ pc \in {"loop", "done"} => n_train_op = i
        /\ pc = "done" => n_train_op = par.n_train_batches

\* trainable variables that are recurrent weights of the predictive cells
\* (the U matrices that multiply h in predictive_cell, lines 183-187)
RecurrentVariables == {"network/Uf0"}

\* C11 as claimed: after every applied gradient step of the training loop
\* every recurrent weight of the cells is at least the tiny positive floor
\* (in the integer model: is positive).
C11_Claimed ==
    (pc \in {"loop", "done"} /\ n_train_op >= 1) =>
        \A n \in RecurrentVariables : var[n] > 0

\* ----------------------------------------------- properties of the cells
\* C12: when a cell below the topmost has run at time step t, its top-down
\* input is the hidden state the layer above produced at step t-1 (the
\* initial zeros at t = 0), not the one of step t; the topmost cell has none.
C12_TopDownDelayed ==
    last_cell # -1 =>
        y = IF last_cell = par.num_pred_cells - 1 THEN NoFeedback
            ELSE [layer |-> last_cell + 1, produced |-> time_step - 1]

\* C12 witness: at a time step after the first, a cell below the topmost has
\* run with the previous step's hidden state of the layer above, which that
\* layer has not yet replaced.
C12_Witness ==
    /\ time_step >= 1 /\ last_cell = 0 /\ par.num_pred_cells >= 2
    /\ y = [layer |-> 1, produced |-> time_step - 1]
    /\ h[1] = y /\ h[0].produced = time_step

\* C13 as claimed: the error a cell forwards at channel k is the maximum of
\* its positive and negative error of the same channel k.
C13_Claimed ==
    last_cell # -1 =>
        \A k \in Channels : error_signal[k] = Maximum(pos_err[k], neg_err[k])

\* C14 as claimed: the reward and action components of every cell's input
\* are the reward and action themselves, whatever the layer index.
C14_Claimed ==
    last_cell # -1 => (x_reward = prev_reward /\ x_action = prev_action)

\* ------------------------------------------- properties of reset_weights
\* C15 as claimed: running reset_weights assigns every declared variable:
\* every weight matrix (W and U prefixes) is redrawn and every bias is zero.
C15_Claimed ==
    reset_pc = "reset" =>
        /\ \A n \in MatrixVariables : n \in reset_assigned
        /\ \A n \in BiasVariables : n \in reset_assigned /\ weights[n] = 0

\* ---------------------------------------------- properties of snapshots
\* records that iterations before the current one have persisted
PersistedEarlier == {k \in 1..Len(snap_records) : snap_records[k] < snap_i}

\* C16 as claimed: after an interruption at any point of the loop the file
\* still holds, uncorrupted, every snapshot persisted by earlier iterations.
C16_Claimed ==
    (snap_pc = "interrupted" /\ PersistedEarlier # {}) =>
        /\ snapshot_file.complete
        /\ \A k \in PersistedEarlier :
              \E j \in 1..Len(snapshot_file.records) :
                  snapshot_file.records[j] = snap_records[k]

====
